---- MODULE Spec2Model ----
(***************************************************************************)
(* A model of query_tcga.py: the field validator, the filter builder, the  *)
(* manifest paginator, the downloader and the verifier.                    *)
(*                                                                         *)
(* Text is a sequence of symbols.  A field or endpoint name is a sequence  *)
(* of its characters, because str.find and str.replace look inside it.    *)
(* A value of a field ("Clinical") and a cell of a manifest row are kept   *)
(* as one symbol each: only their equality and emptiness are used.  The    *)
(* control characters of a manifest are the symbols LF, CR and TAB.        *)
(***************************************************************************)
EXTENDS Integers, Sequences, FiniteSets, TLC

VARIABLES
    op,         \* the function of the module that was called
    args,       \* its arguments
    pc,         \* the position of the call
    server,     \* what the remote API answers at this moment
    requests,   \* every requests.get issued so far, in order
    result,     \* the value returned, or the exception raised, by the call
    pages,      \* get_manifest: the local variable pages
    page,       \* get_manifest: the loop variable page
    output,     \* get_manifest: the contents of the StringIO
    served,     \* the data rows the server put on each manifest page fetched
    manifest_file, \* _download_files: the NamedTemporaryFile
    disk,       \* the files present under the data directories
    calls       \* _download_files: subprocess and verifier calls, in order

vars == <<op, args, pc, server, requests, result, pages, page, output,
          served, manifest_file, disk, calls>>

(***************************************************************************)
(* Bounds of the model.                                                    *)
(***************************************************************************)
MaxPages == 3
MaxSize == 2
MaxFields == 2
MaxValues == 2

(***************************************************************************)
(* Strings.                                                                *)
(***************************************************************************)
Dot == <<".">>
files == <<"f", "i", "l", "e", "s">>
cases == <<"c", "a", "s", "e", "s">>
projects == <<"p", "r", "o", "j", "e", "c", "t", "s">>
annotations == <<"a", "n", "n", "o", "t", "a", "t", "i", "o", "n", "s">>
genes == <<"g", "e", "n", "e", "s">>
data == <<"d", "a", "t", "a">>
data_category == data \o <<"_", "c", "a", "t", "e", "g", "o", "r", "y">>
data_type == data \o <<"_", "t", "y", "p", "e">>
archive == <<"a", "r", "c", "h", "i", "v", "e">>
project == <<"p", "r", "o", "j", "e", "c", "t">>
project_id == project \o <<"_", "i", "d">>

Clinical == <<"Clinical">>
Biospecimen == <<"Biospecimen">>
Bogus == <<"Bogus">>
TCGA_BLCA == <<"TCGA-BLCA">>

Range(s) == {s[i] : i \in 1..Len(s)}

\* s[i..] starts with sub
StartsWithAt(s, sub, i) ==
    /\ i + Len(sub) - 1 <= Len(s)
    /\ \A j \in 1..Len(sub) : s[i + j - 1] = sub[j]

\* str.find: the lowest 0-based index at which sub occurs in s, -1 if none
find(s, sub) ==
    LET hits == {i \in 1..(Len(s) + 1) : StartsWithAt(s, sub, i)}
    IN  IF hits = {} THEN -1
        ELSE (CHOOSE i \in hits : \A k \in hits : i <= k) - 1

\* str.replace(old, new) for a non-empty old: every non-overlapping
\* occurrence, left to right
RECURSIVE replace(_, _, _)
replace(s, old, new) ==
    IF Len(s) = 0 THEN <<>>
    ELSE IF StartsWithAt(s, old, 1)
         THEN new \o replace(SubSeq(s, Len(old) + 1, Len(s)), old, new)
         ELSE <<Head(s)>> \o replace(Tail(s), old, new)

\* "{endpoint}.{field}".format(...)
format_field(endpoint, field) == endpoint \o Dot \o field

(***************************************************************************)
(* Python values: None, str, list, tuple, int, bool.  s is the text of a   *)
(* str, l the elements of a list or tuple, n the number.                   *)
(***************************************************************************)
None == [t |-> "None", s |-> <<>>, l |-> <<>>, n |-> 0]
PyStr(s) == [t |-> "str", s |-> s, l |-> <<>>, n |-> 0]
PyList(l) == [t |-> "list", s |-> <<>>, l |-> l, n |-> 0]
PyTuple(l) == [t |-> "tuple", s |-> <<>>, l |-> l, n |-> 0]
PyInt(n) == [t |-> "int", s |-> <<>>, l |-> <<>>, n |-> n]
True == [t |-> "bool", s |-> <<>>, l |-> <<>>, n |-> 1]

\* not(x)
Not(x) ==
    CASE x.t = "None" -> TRUE
      [] x.t \in {"int", "bool"} -> x.n = 0
      [] x.t = "str" -> Len(x.s) = 0
      [] OTHER -> Len(x.l) = 0

(***************************************************************************)
(* Outcomes of a call: a return value or an exception, with the requests   *)
(* the call issued.                                                        *)
(***************************************************************************)
Return(value, reqs) ==
    [exc |-> "", kind |-> "", ret |-> value, info |-> <<>>, reqs |-> reqs]
Raise(exc, kind, info, reqs) ==
    [exc |-> exc, kind |-> kind, ret |-> None, info |-> info, reqs |-> reqs]
Raised(r) == r.exc # ""
\* the outcome r of a callee, after the requests the caller issued before it
After(reqs, r) == [r EXCEPT !.reqs = reqs \o r.reqs]

Request(kind, endpoint, facets, from, size) ==
    [kind |-> kind, endpoint |-> endpoint, facets |-> facets,
     from |-> from, size |-> size]

VALID_ENDPOINTS == <<files, projects, cases, annotations>>

_convert_to_list(x) ==
    IF Not(x) THEN None
    ELSE IF x.t = "list" THEN x
    ELSE IF x.t = "str" THEN PyList(<<x.s>>)
    ELSE PyList(x.l)

\* the body of _verify_data_list after data_list = _convert_to_list(data_list);
\* all(... for el in None) raises TypeError
verify_converted_list(data_list, allowed_values) ==
    IF data_list = None
    THEN Raise("TypeError", "NoneNotIterable", <<>>, <<>>)
    ELSE IF \A i \in 1..Len(data_list.l) :
              data_list.l[i] \in Range(allowed_values)
    THEN Return(True, <<>>)
    ELSE Raise("ValueError", "InvalidValue",
               SelectSeq(data_list.l,
                         LAMBDA el : el \notin Range(allowed_values)),
               <<>>)

_verify_data_list(data_list, allowed_values) ==
    verify_converted_list(_convert_to_list(data_list), allowed_values)

\* _list_valid_fields once the endpoint name is verified, with outcome v:
\* requests.get(endpoint + '/_mapping'), raise_for_status, json()['_mapping']
get_mapping(v, endpoint_name, srv, reqs) ==
    IF Raised(v) THEN v
    ELSE IF ~srv.up THEN Raise("HTTPError", "HTTPError", <<>>, reqs)
    ELSE IF endpoint_name \notin DOMAIN srv.mapping
    THEN Raise("ValueError", "SchemaError", <<>>, reqs)
    ELSE Return(srv.mapping[endpoint_name], reqs)

_list_valid_fields(endpoint_name, srv) ==
    get_mapping(_verify_data_list(PyList(<<endpoint_name>>), VALID_ENDPOINTS),
                endpoint_name, srv,
                <<Request("mapping", endpoint_name, <<>>, 0, 0)>>)

\* the list comprehension of _search_for_field over the outcome fields
search_fields(fields, search_string) ==
    IF Raised(fields) THEN fields
    ELSE Return(SelectSeq(fields.ret,
                          LAMBDA field : find(field, search_string) > 0),
                fields.reqs)

_search_for_field(search_string, endpoint_name, srv) ==
    search_fields(_list_valid_fields(endpoint_name, srv), search_string)

\* requests.get with the facets parameter, raise_for_status, and the bucket
\* keys of the aggregation
get_facets(facet, srv, reqs) ==
    IF ~srv.up THEN Raise("HTTPError", "HTTPError", <<>>, reqs)
    ELSE IF facet \notin DOMAIN srv.options
    THEN Raise("ValueError", "SchemaError", <<>>, reqs)
    ELSE Return(srv.options[facet], reqs)

\* with project_name=None and strip_endpoint_from_field_name=True, as
\* _verify_field_values calls it
_list_valid_options(field_name, endpoint_name, srv) ==
    get_facets(replace(field_name, endpoint_name \o Dot, <<>>), srv,
               <<Request("facets", endpoint_name,
                         replace(field_name, endpoint_name \o Dot, <<>>),
                         0, 0)>>)

\* the except ValueError branch of _verify_field_name, entered after the
\* requests reqs
verify_field_name_except(possible_matches, reqs) ==
    IF Raised(possible_matches) THEN After(reqs, possible_matches)
    ELSE Raise("ValueError", "InvalidField", possible_matches.ret,
               reqs \o possible_matches.reqs)

\* the try block of _verify_field_name: found is its outcome
verify_field_name_try(fields, field_name) ==
    IF Raised(fields) THEN fields
    ELSE After(fields.reqs, _verify_data_list(PyStr(field_name), fields.ret))

verify_field_name_handle(found, field_name, endpoint_name, srv) ==
    IF found.exc = "ValueError"
    THEN verify_field_name_except(
             _search_for_field(field_name, endpoint_name, srv), found.reqs)
    ELSE found

_verify_field_name(field_name, endpoint_name, srv) ==
    verify_field_name_handle(
        verify_field_name_try(_list_valid_fields(endpoint_name, srv),
                              field_name),
        field_name, endpoint_name, srv)

\* the last line of _verify_field_values, with the outcome valid_options
verify_field_values_list(valid_options, data_list) ==
    IF Raised(valid_options) THEN valid_options
    ELSE After(valid_options.reqs,
               _verify_data_list(data_list, valid_options.ret))

\* _verify_field_values after _verify_field_name, with outcome name; the
\* options are listed only when the name passed
verify_field_values_options(name, valid_options, data_list) ==
    IF Raised(name) THEN name
    ELSE After(name.reqs, verify_field_values_list(valid_options, data_list))

_verify_field_values(data_list, field_name, endpoint_name, srv) ==
    verify_field_values_options(
        _verify_field_name(field_name, endpoint_name, srv),
        _list_valid_options(field_name, endpoint_name, srv),
        data_list)

(***************************************************************************)
(* Filter builder.  kwargs is the sequence of the keyword arguments, in    *)
(* the dict's iteration order, each [field |-> name, value |-> value].     *)
(***************************************************************************)
Leaf(field, value) ==
    [op |-> "in", content |-> [field |-> field, value |-> value]]

filt_project(project_name) ==
    Leaf(cases \o Dot \o project \o Dot \o project_id,
         PyList(<<project_name>>))

\* one iteration of the loop of _construct_filter_parameters: the outcome of
\* the validation, and the leaf appended when it passes
next_filter(endpoint_name, kw) ==
    Leaf(format_field(endpoint_name, kw.field), _convert_to_list(kw.value))

\* a slip in the validation: the field name is checked, its values are not
VerifyFilterNameOnly(endpoint_name, kw, srv) ==
    _verify_field_name(format_field(endpoint_name, kw.field), endpoint_name,
                       srv)

verify_filter(endpoint_name, kw, srv) ==
    _verify_field_values(_convert_to_list(kw.value),
                         format_field(endpoint_name, kw.field),
                         endpoint_name, srv)

\* the loop of _construct_filter_parameters from the i-th keyword argument
\* on; so_far is the outcome up to it: content_filters and the requests issued
RECURSIVE filter_loop(_, _, _, _, _)
filter_step(so_far, v, kwargs, i, endpoint_name, srv) ==
    IF Raised(v) THEN After(so_far.reqs, v)
    ELSE filter_loop(Return(Append(so_far.ret,
                                   next_filter(endpoint_name, kwargs[i])),
                            so_far.reqs \o v.reqs),
                     kwargs, i + 1, endpoint_name, srv)

filter_loop(so_far, kwargs, i, endpoint_name, srv) ==
    IF i > Len(kwargs)
    THEN Return([op |-> "and", content |-> so_far.ret], so_far.reqs)
    ELSE filter_step(so_far, verify_filter(endpoint_name, kwargs[i], srv),
                     kwargs, i, endpoint_name, srv)

_construct_filter_parameters(project_name, endpoint_name, kwargs, srv) ==
    filter_loop(Return(<<filt_project(project_name)>>, <<>>), kwargs, 1,
                endpoint_name, srv)

\* params of _construct_parameters from the outcome filt; json.dumps of the
\* filter is kept as the tree it serialises
construct_params(filt, size) ==
    IF Raised(filt) THEN filt
    ELSE Return([filters |-> filt.ret, size |-> size], filt.reqs)

_construct_parameters(project_name, size, kwargs, srv) ==
    construct_params(
        _construct_filter_parameters(project_name, files, kwargs, srv), size)

(***************************************************************************)
(* Manifest paginator.                                                     *)
(***************************************************************************)
LF == "LF"
CR == "CR"
TAB == "TAB"

_compute_start_given_page(p, size) == p * size + 1

\* after params, with its outcome: requests.get(endpoint, params=...),
\* raise_for_status, and the body of the response
get(params, srv, req, body) ==
    IF Raised(params) THEN params
    ELSE IF ~srv.up
    THEN Raise("HTTPError", "HTTPError", <<>>,
               Append(params.reqs, [req EXCEPT !.size = params.ret.size]))
    ELSE Return(body,
                Append(params.reqs, [req EXCEPT !.size = params.ret.size]))

\* answer is the page count the server reports for this request
_get_num_pages(project_name, size, kwargs, srv, answer) ==
    get(_construct_parameters(project_name, size, kwargs, srv), srv,
        Request("count", files, <<>>, 0, size), PyInt(answer))

\* text is the body the server answers this request with
_get_manifest_once(project_name, size, p, kwargs, srv, text) ==
    get(_construct_parameters(project_name, size, kwargs, srv), srv,
        Request("manifest", files, <<>>, _compute_start_given_page(p, size),
                size),
        text)

\* str.splitlines for the line boundaries LF, CR and CR LF
RECURSIVE split_lines(_, _)
split_lines(text, cur) ==
    IF Len(text) = 0
    THEN IF Len(cur) = 0 THEN <<>> ELSE <<cur>>
    ELSE IF Head(text) = CR /\ Len(text) >= 2 /\ text[2] = LF
    THEN <<cur>> \o split_lines(SubSeq(text, 3, Len(text)), <<>>)
    ELSE IF Head(text) \in {LF, CR}
    THEN <<cur>> \o split_lines(Tail(text), <<>>)
    ELSE split_lines(Tail(text), Append(cur, Head(text)))

splitlines(text) == split_lines(text, <<>>)

\* a slip in the header test: the header of page 1 is kept as well
DropHeaderAfterFirstTwo(p, response_text) ==
    IF p > 1 THEN Tail(response_text) ELSE response_text

\* if page>0: del response_text[0]
drop_header(p, response_text) ==
    IF p > 0 THEN Tail(response_text) ELSE response_text

\* [output.write(line+'\n') for line in response_text]
RECURSIVE write_lines(_, _)
write_lines(out, response_text) ==
    IF Len(response_text) = 0 THEN out
    ELSE write_lines(out \o Head(response_text) \o <<LF>>,
                     Tail(response_text))

(***************************************************************************)
(* Downloader and verifier.  A path on disk is [dir, id, filename].        *)
(***************************************************************************)
GDC_DATA_DIR == "data/gdc"

\* the cells of one tab-separated line
RECURSIVE split_cells(_, _)
split_cells(line, cur) ==
    IF Len(line) = 0 THEN <<cur>>
    ELSE IF Head(line) = TAB
    THEN <<cur>> \o split_cells(Tail(line), <<>>)
    ELSE split_cells(Tail(line), Append(cur, Head(line)))

\* row[column], by the position of the column in the header
Cell(header, row, column) ==
    row[CHOOSE i \in 1..Len(header) : header[i] = <<column>>]

\* pd.read_table(manifest_file, sep='\t'): the rows as [id, filename];
\* an empty file raises pandas' EmptyDataError, a closed (deleted) one
\* FileNotFoundError
_read_manifest_data(file) ==
    LET lines == splitlines(file.contents)
        header == split_cells(lines[1], <<>>)
    IN  IF ~file.exists
        THEN Raise("FileNotFoundError", "FileNotFoundError", <<>>, <<>>)
        ELSE IF Len(lines) = 0
        THEN Raise("EmptyDataError", "EmptyDataError", <<>>, <<>>)
        ELSE Return([i \in 1..(Len(lines) - 1) |->
                       LET row == split_cells(lines[i + 1], <<>>)
                       IN  [id |-> Cell(header, row, "id"),
                            filename |-> Cell(header, row, "filename")]],
                    <<>>)

_verify_download_single_file(row, data_dir, files_on_disk) ==
    [dir |-> data_dir, id |-> row.id, filename |-> row.filename]
        \in files_on_disk

\* a slip in the verdict: any(verification) instead of all(verification)
VerifyDownloadAny(file, data_dir, files_on_disk) ==
    LET manifest_data == _read_manifest_data(file)
    IN  IF Raised(manifest_data) THEN manifest_data
        ELSE IF \E i \in 1..Len(manifest_data.ret) :
                  _verify_download_single_file(manifest_data.ret[i], data_dir,
                                               files_on_disk)
        THEN Return(True, <<>>)
        ELSE Raise("ValueError", "IncompleteDownload", <<>>, <<>>)

verify_download(file, data_dir, files_on_disk) ==
    LET manifest_data == _read_manifest_data(file)
    IN  IF Raised(manifest_data) THEN manifest_data
        ELSE IF \A i \in 1..Len(manifest_data.ret) :
                  _verify_download_single_file(manifest_data.ret[i], data_dir,
                                               files_on_disk)
        THEN Return(True, <<>>)
        ELSE Raise("ValueError", "IncompleteDownload", <<>>, <<>>)

\* subprocess.check_call: the exit status 0 is returned, any other raises
check_call(status) ==
    IF status # 0
    THEN Raise("CalledProcessError", "CalledProcessError", <<>>, <<>>)
    ELSE Return(PyInt(0), <<>>)

\* manifest_file.close(): a NamedTemporaryFile is deleted when closed
close(file) == [file EXCEPT !.state = "closed", !.exists = FALSE]

\* a slip in the cleanup: the file is closed at the end of the try block
\* instead of in a finally clause
CloseUnlessRaised(file, raised) == IF raised THEN file ELSE close(file)

\* the finally clause of _download_files; raised tells how the try block ended
finally(file, raised) == close(file)

(***************************************************************************)
(* The remote API.  mapping: the field names of each endpoint's _mapping,  *)
(* in the order of the JSON object; options: the bucket keys of each facet.*)
(***************************************************************************)
Schema ==
    (files :> <<format_field(files, data_category),
                format_field(files, data_type),
                format_field(files, format_field(archive, data_category))>>)
    @@ (cases :> <<format_field(cases, project_id)>>)

Facets ==
    (data_category :> <<Clinical, Biospecimen>>)
    @@ (data_type :> <<Clinical>>)
    @@ (format_field(archive, data_category) :> <<Biospecimen>>)

ServerStates ==
    { [up |-> TRUE, mapping |-> Schema, options |-> Facets],
      \* data_category is no field of files any more
      [up |-> TRUE,
       mapping |-> [Schema EXCEPT ![files] = Tail(Schema[files])],
       options |-> Facets],
      \* Clinical is no value of data_category any more
      [up |-> TRUE, mapping |-> Schema,
       options |-> [Facets EXCEPT ![data_category] = <<Biospecimen>>]],
      \* every request fails
      [up |-> FALSE, mapping |-> Schema, options |-> Facets] }

HEADER == <<"id", TAB, "filename", TAB, "md5", TAB, "size", TAB, "state">>
Rows ==
    { <<"id1", TAB, "a.xml", TAB, "m1", TAB, "10", TAB, "live">>,
      <<"id2", TAB, "b.xml", TAB, "m2", TAB, "20", TAB, "live">> }

\* the data rows of one page of size size: no file is listed twice on a page
PageRows(size) ==
    UNION { {s \in [1..n -> Rows] : \A i, j \in 1..n : s[i] = s[j] => i = j}
            : n \in 0..(IF size < Cardinality(Rows) THEN size
                        ELSE Cardinality(Rows)) }

\* how the server ends the lines of a page
Styles == {"LF", "CRLF", "LF, none after the last line"}

RECURSIVE render(_, _)
render(lines, style) ==
    IF Len(lines) = 0 THEN <<>>
    ELSE Head(lines)
         \o (IF style = "CRLF" THEN <<CR, LF>>
             ELSE IF style = "LF" \/ Len(lines) > 1 THEN <<LF>>
             ELSE <<>>)
         \o render(Tail(lines), style)

(***************************************************************************)
(* The calls the model makes.                                              *)
(***************************************************************************)
DefaultArgs ==
    [project_name |-> TCGA_BLCA, endpoint_name |-> files, kwargs |-> <<>>,
     field_name |-> <<>>, data_list |-> None, size |-> 1, pages |-> None,
     data_category |-> None, data_dir |-> GDC_DATA_DIR]

ValueUniverse == {Clinical, Biospecimen, Bogus}

SeqsUpTo(S, n) == UNION {[1..k -> S] : k \in 0..n}

DataLists ==
    {None, PyStr(<<>>)}
    \cup {PyStr(v) : v \in ValueUniverse}
    \cup {PyList(l) : l \in SeqsUpTo(ValueUniverse, MaxValues)}
    \cup {PyTuple(l) : l \in SeqsUpTo(ValueUniverse, MaxValues)}

FilterValues ==
    {None, PyList(<<>>), PyStr(Clinical), PyStr(Bogus),
     PyList(<<Clinical, Biospecimen>>), PyTuple(<<Biospecimen>>)}

FieldKeys == {data_category, data_type, data}

Kwargs ==
    UNION { {s \in [1..n -> [field : FieldKeys, value : FilterValues]] :
               \A i, j \in 1..n : s[i].field = s[j].field => i = j}
            : n \in 0..MaxFields }

PagesArgs == {None} \cup {PyInt(n) : n \in 0..MaxPages}

Calls ==
    { [op |-> "_verify_field_name",
       args |-> [DefaultArgs EXCEPT !.field_name = f, !.endpoint_name = e]] :
        f \in {<<>>, data_category, format_field(files, data_category),
               format_field(files, data), format_field(files, data_type),
               Bogus},
        e \in {files, cases, projects, genes} }
    \cup
    { [op |-> "_verify_field_values",
       args |-> [DefaultArgs EXCEPT !.data_list = d, !.field_name = f]] :
        d \in DataLists,
        f \in {data_category, format_field(files, data_category),
               format_field(files, data_type)} }
    \cup
    { [op |-> "_construct_filter_parameters",
       args |-> [DefaultArgs EXCEPT !.kwargs = k, !.endpoint_name = e]] :
        k \in Kwargs, e \in {files, cases} }
    \cup
    { [op |-> "get_manifest",
       args |-> [DefaultArgs EXCEPT !.kwargs = k, !.size = n, !.pages = p]] :
        k \in {<<>>,
               <<[field |-> data_category,
                  value |-> PyList(<<Clinical, Biospecimen>>)]>>},
        n \in 1..MaxSize, p \in PagesArgs }
    \cup
    { [op |-> "_download_files",
       args |-> [DefaultArgs EXCEPT !.data_category = c, !.size = MaxSize,
                                    !.pages = p]] :
        c \in {PyStr(Clinical)}, p \in PagesArgs }

NoFile == [state |-> "none", exists |-> FALSE, name |-> "", contents |-> <<>>]

Init ==
    /\ \E c \in Calls : op = c.op /\ args = c.args
    /\ server \in ServerStates
    /\ pc = "start"
    /\ requests = <<>>
    /\ result = Return(None, <<>>)
    /\ pages = None
    /\ page = 0
    /\ output = <<>>
    /\ served = <<>>
    /\ manifest_file = NoFile
    /\ disk = {}
    /\ calls = <<>>

\* the call ends with the outcome r
Exit(r) ==
    /\ result' = [r EXCEPT !.reqs = <<>>]
    /\ pc' = "done"

VerifyFieldName ==
    /\ pc = "start" /\ op = "_verify_field_name"
    /\ LET r == _verify_field_name(args.field_name, args.endpoint_name, server)
       IN  Exit(r) /\ requests' = requests \o r.reqs
    /\ UNCHANGED <<op, args, server, pages, page, output, served,
                   manifest_file, disk, calls>>

VerifyFieldValues ==
    /\ pc = "start" /\ op = "_verify_field_values"
    /\ LET r == _verify_field_values(args.data_list, args.field_name,
                                     args.endpoint_name, server)
       IN  Exit(r) /\ requests' = requests \o r.reqs
    /\ UNCHANGED <<op, args, server, pages, page, output, served,
                   manifest_file, disk, calls>>

ConstructFilterParameters ==
    /\ pc = "start" /\ op = "_construct_filter_parameters"
    /\ LET r == _construct_filter_parameters(args.project_name,
                                             args.endpoint_name, args.kwargs,
                                             server)
       IN  Exit(r) /\ requests' = requests \o r.reqs
    /\ UNCHANGED <<op, args, server, pages, page, output, served,
                   manifest_file, disk, calls>>

\* the keyword arguments get_manifest receives: _download_files passes
\* data_category=data_category ahead of its own **kwargs
manifest_kwargs ==
    IF op = "_download_files"
    THEN <<[field |-> data_category, value |-> args.data_category]>>
         \o args.kwargs
    ELSE args.kwargs

\* get_manifest is entered: output = io.StringIO(), and the test not(pages).
\* _download_files enters it after _mkdir_if_not_exists, with size=page_size
\* and pages=max_pages.
GetManifest ==
    /\ pc = "start" /\ op \in {"get_manifest", "_download_files"}
    /\ output' = <<>>
    /\ pages' = args.pages
    /\ page' = 0
    /\ pc' = IF Not(args.pages) THEN "_get_num_pages" ELSE "for page"
    /\ UNCHANGED <<op, args, server, requests, result, served,
                   manifest_file, disk, calls>>

\* pages = _get_num_pages(...)
GetNumPages ==
    /\ pc = "_get_num_pages"
    /\ \E answer \in 0..MaxPages :
         LET r == _get_num_pages(args.project_name, args.size,
                                 manifest_kwargs, server, answer)
         IN  /\ requests' = requests \o r.reqs
             /\ IF Raised(r)
                THEN Exit(r) /\ UNCHANGED pages
                ELSE pages' = r.ret /\ pc' = "for page" /\ UNCHANGED result
    /\ UNCHANGED <<op, args, server, page, output, served,
                   manifest_file, disk, calls>>

\* one iteration of: for page in np.arange(pages)
GetManifestOnce ==
    /\ pc = "for page" /\ page < pages.n
    /\ \E rows \in PageRows(args.size), style \in Styles :
         LET r == _get_manifest_once(args.project_name, args.size, page,
                                     manifest_kwargs, server,
                                     render(<<HEADER>> \o rows, style))
             response_text == drop_header(page, splitlines(r.ret))
         IN  /\ requests' = requests \o r.reqs
             /\ IF Raised(r)
                THEN Exit(r) /\ UNCHANGED <<page, output, served>>
                ELSE /\ output' = write_lines(output, response_text)
                     /\ served' = Append(served, rows)
                     /\ page' = page + 1
                     /\ UNCHANGED <<pc, result>>
    /\ UNCHANGED <<op, args, server, pages, manifest_file, disk, calls>>

\* return output.getvalue(); in _download_files the value is
\* manifest_contents and the call goes on
GetManifestReturn ==
    /\ pc = "for page" /\ page >= pages.n
    /\ IF op = "get_manifest"
       THEN Exit(Return(output, <<>>))
       ELSE pc' = "NamedTemporaryFile" /\ UNCHANGED result
    /\ UNCHANGED <<op, args, server, requests, pages, page, output, served,
                   manifest_file, disk, calls>>

\* manifest_file = tempfile.NamedTemporaryFile(); write; flush
WriteManifestFile ==
    /\ pc = "NamedTemporaryFile"
    /\ manifest_file' = [state |-> "open", exists |-> TRUE,
                         name |-> "tmp", contents |-> output]
    /\ pc' = "check_call"
    /\ UNCHANGED <<op, args, server, requests, result, pages, page, output,
                   served, disk, calls>>

Call(fn, file, dir, status) ==
    [fn |-> fn, file |-> file, dir |-> dir, status |-> status]

\* what one run of gdc-client leaves in its working directory
Downloads(dir) ==
    SUBSET {[dir |-> dir, id |-> <<r[1]>>, filename |-> <<r[3]>>] : r \in Rows}

\* if subprocess.check_call(exe_bash, cwd=data_dir):
\*     subprocess.call(exe_bash, cwd=data_dir)
\* status and got are the first run's exit status and files, again and
\* got_again the second's
RunClient ==
    /\ pc = "check_call"
    /\ \E status \in {0, 1}, got \in Downloads(args.data_dir),
          again \in {0, 1}, got_again \in Downloads(args.data_dir) :
         LET r == check_call(status)
             first == Call("check_call", manifest_file.name, args.data_dir,
                           status)
             second == Call("call", manifest_file.name, args.data_dir, again)
         IN  IF Raised(r)
             THEN /\ calls' = Append(calls, first)
                  /\ disk' = disk \cup got
                  /\ manifest_file' = finally(manifest_file, TRUE)
                  /\ Exit(r)
             ELSE IF r.ret.n # 0
             THEN /\ calls' = calls \o <<first, second>>
                  /\ disk' = disk \cup got \cup got_again
                  /\ pc' = "verify_download"
                  /\ UNCHANGED <<manifest_file, result>>
             ELSE /\ calls' = Append(calls, first)
                  /\ disk' = disk \cup got
                  /\ pc' = "verify_download"
                  /\ UNCHANGED <<manifest_file, result>>
    /\ UNCHANGED <<op, args, server, requests, pages, page, output, served>>

\* verify_download(manifest_file.name, data_dir=data_dir), the finally
\* clause, and return True
VerifyDownload ==
    /\ pc = "verify_download"
    /\ LET r == verify_download(manifest_file, args.data_dir, disk)
       IN  /\ calls' = Append(calls, Call("verify_download",
                                          manifest_file.name, args.data_dir,
                                          0))
           /\ manifest_file' = finally(manifest_file, Raised(r))
           /\ IF Raised(r) THEN Exit(r) ELSE Exit(Return(True, <<>>))
    /\ UNCHANGED <<op, args, server, requests, pages, page, output, served,
                   disk>>

\* the remote API changes between two steps of a paginated call
ServerUpdate ==
    /\ pc \in {"_get_num_pages", "for page"}
    /\ server' \in ServerStates \ {server}
    /\ UNCHANGED <<op, args, pc, requests, result, pages, page, output,
                   served, manifest_file, disk, calls>>

Next ==
    \/ VerifyFieldName
    \/ VerifyFieldValues
    \/ ConstructFilterParameters
    \/ GetManifest
    \/ GetNumPages
    \/ GetManifestOnce
    \/ GetManifestReturn
    \/ WriteManifestFile
    \/ RunClient
    \/ VerifyDownload
    \/ ServerUpdate

Spec == Init /\ [][Next]_vars

(***************************************************************************)
(* Properties.                                                             *)
(***************************************************************************)
Returned(o) == op = o /\ pc = "done" /\ ~Raised(result)
Failed(o) == op = o /\ pc = "done" /\ Raised(result)

RequestsOfKind(kind) == SelectSeq(requests, LAMBDA q : q.kind = kind)

\* the concatenation of a sequence of sequences
RECURSIVE Flatten(_)
Flatten(ss) == IF Len(ss) = 0 THEN <<>> ELSE Head(ss) \o Flatten(Tail(ss))

\* the data rows of the pages fetched, in page order and within-page order
ServedRows == Flatten(served)

\* the lines, each ended by one LF
Lines(lines) == Flatten([i \in 1..Len(lines) |-> lines[i] \o <<LF>>])

\* C1: when _download_files has ended, by returning or by raising, a
\* temporary manifest file that was created exists no more.
C1_ManifestFileDeleted ==
    (op = "_download_files" /\ pc = "done" /\ manifest_file.state # "none")
        => (manifest_file.state = "closed" /\ ~manifest_file.exists)

\* _download_files ended because the verifier found a file missing, after
\* the temporary file was created and the client ran
C1_Witness ==
    /\ Failed("_download_files")
    /\ result.kind = "IncompleteDownload"
    /\ manifest_file.state = "closed"
    /\ Len(calls) = 2

\* the runs of gdc-client, in order
ClientRuns == SelectSeq(calls, LAMBDA c : c.fn \in {"check_call", "call"})

\* C2: when _download_files has ended after starting the client, the client
\* ran once if its first run exited with status 0, and twice, with the same
\* manifest and working directory, if its first run exited with another
\* status; never more than twice.
C2_RetryOnceOnFailure ==
    (op = "_download_files" /\ pc = "done" /\ Len(ClientRuns) > 0)
        => /\ Len(ClientRuns) <= 2
           /\ ClientRuns[1].status = 0 => Len(ClientRuns) = 1
           /\ ClientRuns[1].status # 0 =>
                /\ Len(ClientRuns) = 2
                /\ ClientRuns[2].file = ClientRuns[1].file
                /\ ClientRuns[2].dir = ClientRuns[1].dir

\* C3, as stated: whatever number of pages was fetched, the manifest
\* get_manifest returns is the header line followed by every data row of the
\* pages in order, each line ended by one LF.
C3_HeaderOnceAnyPages ==
    Returned("get_manifest")
        => result.ret = Lines(<<HEADER>> \o ServedRows)

\* C3, amended: when at least one page was fetched, the manifest is the
\* header line followed by every data row of the pages in page order and
\* within-page order, each line ended by one LF; when no page was fetched it
\* is the empty text.
C3_HeaderOnce ==
    Returned("get_manifest")
        => IF Len(served) >= 1
           THEN result.ret = Lines(<<HEADER>> \o ServedRows)
           ELSE result.ret = <<>>

\* three pages were fetched: one of two rows, one header-only, one more
C3_Witness ==
    /\ Returned("get_manifest")
    /\ Len(served) = 3
    /\ Len(served[1]) = 2
    /\ Len(served[2]) = 0
    /\ Len(served[3]) >= 1

\* C4: when get_manifest fails with InvalidField or InvalidValue, no
\* manifest page has been requested.
C4_ValidationBeforeFirstPage ==
    (Failed("get_manifest") /\ result.kind \in {"InvalidField", "InvalidValue"})
        => Len(RequestsOfKind("manifest")) = 0

\* the values a constraint asks for, as a sequence
Elements(x) == IF x.t = "str" THEN <<x.s>> ELSE x.l

\* name contains f at some position
Contains(name, f) == \E i \in 1..Len(name) : StartsWithAt(name, f, i)

\* the server lists the field of keyword argument kw for the endpoint, and
\* every value kw asks for is among the field's options
PassesValidation(kw, endpoint_name) ==
    /\ format_field(endpoint_name, kw.field)
           \in Range(server.mapping[endpoint_name])
    /\ kw.field \in DOMAIN server.options
    /\ \A v \in Range(Elements(kw.value)) :
           v \in Range(server.options[kw.field])

\* C5: when _construct_filter_parameters is called with a constraint whose
\* value is falsy, every field being one of the endpoint and every other
\* value one of its field's options, the call returns, and the filter holds
\* the project leaf and the leaves of the constraints that are not falsy, in
\* order, and no leaf for a falsy one.
C5_FalsyConstraintIsAbsent ==
    (/\ op = "_construct_filter_parameters" /\ pc = "done"
     /\ server.up
     /\ \E i \in 1..Len(args.kwargs) : Not(args.kwargs[i].value)
     /\ \A i \in 1..Len(args.kwargs) :
            PassesValidation(args.kwargs[i], args.endpoint_name))
        => /\ ~Raised(result)
           /\ result.ret.content =
                <<filt_project(args.project_name)>>
                \o [i \in 1..Len(SelectSeq(args.kwargs,
                                           LAMBDA kw : ~Not(kw.value))) |->
                      next_filter(args.endpoint_name,
                                  SelectSeq(args.kwargs,
                                            LAMBDA kw : ~Not(kw.value))[i])]

\* C6: when _verify_field_name is given a non-empty name that is no field
\* of the endpoint, it fails with InvalidField, and the suggestions are the
\* endpoint's field names that contain the name at any position, in the
\* endpoint's order (none, when no field name contains it).
C6_SuggestionsAreTheSubstringMatches ==
    (/\ op = "_verify_field_name" /\ pc = "done"
     /\ server.up
     /\ args.endpoint_name \in Range(VALID_ENDPOINTS)
     /\ args.endpoint_name \in DOMAIN server.mapping
     /\ Len(args.field_name) > 0
     /\ args.field_name \notin Range(server.mapping[args.endpoint_name]))
        => /\ result.kind = "InvalidField"
           /\ result.info =
                SelectSeq(server.mapping[args.endpoint_name],
                          LAMBDA name : Contains(name, args.field_name))

\* the requested values that are outside the options of the field
Offending ==
    SelectSeq(Elements(args.data_list),
              LAMBDA v : v \notin Range(server.options[
                  replace(args.field_name, args.endpoint_name \o Dot, <<>>)]))

\* C7: given a list or tuple of values, or one value, _verify_field_values
\* fails with InvalidField, without asking for the field's options, when the
\* field is none of the endpoint; otherwise it returns True exactly when
\* every requested value is among the options, and fails with InvalidValue
\* naming the offending values, all of them, in the order given, when not.
C7_AllOffendingValuesInOrder ==
    (/\ op = "_verify_field_values" /\ pc = "done" /\ server.up
     /\ args.data_list.t \in {"list", "tuple"} \/ ~Not(args.data_list))
        => IF args.field_name
                  \notin Range(server.mapping[args.endpoint_name])
           THEN /\ result.kind = "InvalidField"
                /\ Len(RequestsOfKind("facets")) = 0
           ELSE /\ ~Raised(result) <=> Len(Offending) = 0
                /\ ~Raised(result) => result.ret = True
                /\ Raised(result) =>
                       /\ result.kind = "InvalidValue"
                       /\ result.info = Offending

FileOf(row, dir) == [dir |-> dir, id |-> <<row[1]>>, filename |-> <<row[3]>>]

\* C9: _download_files returns True only after every page of the manifest
\* was fetched, the client ran and exited with status 0, and the verifier,
\* called after it on the same data directory, found the file of every
\* manifest row; the verifier is never called before the client has run;
\* and when the verifier was called and the file of some row is missing,
\* the call failed with IncompleteDownload.
C9_TrueOnlyIfVerified ==
    /\ Returned("_download_files")
         => /\ result.ret = True
            /\ Len(served) = pages.n
            /\ calls = <<Call("check_call", manifest_file.name,
                              args.data_dir, 0),
                         Call("verify_download", manifest_file.name,
                              args.data_dir, 0)>>
            /\ \A row \in Range(ServedRows) :
                   FileOf(row, args.data_dir) \in disk
    /\ \A i \in 1..Len(calls) :
         calls[i].fn = "verify_download"
            => /\ i > 1
               /\ calls[i - 1].fn \in {"check_call", "call"}
               /\ calls[i - 1].status = 0
               /\ calls[i].dir = args.data_dir
               /\ calls[i - 1].dir = args.data_dir
    /\ (/\ op = "_download_files" /\ pc = "done"
        /\ \E i \in 1..Len(calls) : calls[i].fn = "verify_download"
        /\ \E row \in Range(ServedRows) :
               FileOf(row, args.data_dir) \notin disk)
         => (Raised(result) /\ result.kind = "IncompleteDownload")

\* True was returned for a manifest of two pages and at least two rows
C9_Witness ==
    /\ Returned("_download_files")
    /\ Len(served) >= 2
    /\ Len(ServedRows) >= 2

\* C10: when get_manifest returns, with pages given as p no page count was
\* requested and the manifest pages requested are p, those of the indices
\* 0..p-1 in order, index k from the offset k*size+1; with pages unset one
\* page count was requested, before every manifest page.
C10_RequestSequence ==
    Returned("get_manifest")
        => /\ args.pages.t = "int" =>
                /\ Len(RequestsOfKind("count")) = 0
                /\ Len(RequestsOfKind("manifest")) = args.pages.n
                /\ \A k \in 1..Len(RequestsOfKind("manifest")) :
                       RequestsOfKind("manifest")[k].from
                           = (k - 1) * args.size + 1
           /\ args.pages.t = "None" =>
                /\ Len(RequestsOfKind("count")) = 1
                /\ \A i, j \in 1..Len(requests) :
                       (requests[i].kind = "manifest"
                        /\ requests[j].kind = "count") => j < i

====
